---- MODULE Spec2Model ----
(***************************************************************************)
(* Model of pkg/electrum/client.go: the Electrum client's transport        *)
(* selection (Connect, GetTLSConn, GetConn), the one-shot request/response *)
(* exchange (SendRequest, SendRequestBytes) and peer discovery             *)
(* (GetPeerInfo).                                                          *)
(*                                                                         *)
(* The Client struct holds only loggers, so the program has no state that  *)
(* survives a call.  The state of the model is the call in progress: which *)
(* operation runs on which node, what the network does to it, the network  *)
(* I/O it has issued so far, the connections it has opened, and what it    *)
(* handed back to its caller.  A call runs atomically up to the point      *)
(* where it blocks in the read of the response, and from there to its      *)
(* return.                                                                 *)
(***************************************************************************)
EXTENDS Integers, Sequences, FiniteSets, TLC

VARIABLES
    pc,       \* "idle", "reading" (blocked in the response read) or "done"
    op,       \* the call: [name, node, id, req]
    env,      \* what the network does to this call: [dial, write, close, peer]
    events,   \* the network I/O issued by this call, in order
    conns,    \* the connections opened by this call: conns[c] is conn c
    held,     \* the connection the blocked call holds (NilConn if none)
    payload,  \* the JSON document the peer answered with
    result,   \* what the call returned: [conn, resp, peers, err, panicked]
    calls,    \* concurrent callers: calls[a] is the call of goroutine a
    net       \* the connections opened by the concurrent callers

vars == <<pc, op, env, events, conns, held, payload, result, calls, net>>

----------------------------------------------------------------------------
(* Bounds *)

MaxStreamLen == 2   \* tokens the peer sends before it closes the stream
MaxPeers == 2       \* raw entries in one peer-subscription result
MaxReqID == 2       \* correlation identifiers 1..MaxReqID

----------------------------------------------------------------------------
(* Values *)

NilConn == 0

Err(msg, cause) == [msg |-> msg, cause |-> cause]

NoErr == Err("", "")

NilSlice == [nil |-> TRUE, elems |-> <<>>]

Slice(s) == [nil |-> FALSE, elems |-> s]

NL == "\n"

----------------------------------------------------------------------------
(* Node descriptors.  A host is its sequence of DNS labels. *)

PlainHost == <<"a", "example">>

OnionHost == <<"x", "onion">>

Nodes ==
    [Host : {PlainHost, OnionHost}, TCPPort : {0, 50001}, SSLPort : {50002},
     SSL : BOOLEAN]

IsOnion(n) == Len(n.Host) > 0 /\ n.Host[Len(n.Host)] = "onion"

SupportsTLS(n) == n.SSL

----------------------------------------------------------------------------
(* The network: dialing and closing.  A world w is [ev, conns]. *)

World(ev, cs) == [ev |-> ev, conns |-> cs]

Ret(w, val, err) ==
    [w |-> w, val |-> val, err |-> err, panicked |-> FALSE, blocked |-> FALSE]

Panic(w) ==
    [w |-> w, val |-> NilConn, err |-> NoErr, panicked |-> TRUE, blocked |-> FALSE]

\* The call holds connection c and waits in the read of the response.
Blocked(w, c) ==
    [w |-> w, val |-> c, err |-> NoErr, panicked |-> FALSE, blocked |-> TRUE]

\* tls.DialWithDialer / net.DialTimeout: the dial honours the timeout, so it
\* always returns: a connection, or an error and no connection.
Dial(w, transport, n, port, e) ==
    IF e.dial = "ok"
    THEN LET c == Len(w.conns) + 1 IN
         [w |-> World(Append(w.ev, [type |-> "dial", transport |-> transport,
                                    host |-> n.Host, port |-> port, conn |-> c]),
                      Append(w.conns, [transport |-> transport, open |-> TRUE,
                                       closes |-> 0])),
          conn |-> c, err |-> ""]
    ELSE [w |-> World(Append(w.ev, [type |-> "dial", transport |-> transport,
                                    host |-> n.Host, port |-> port,
                                    conn |-> NilConn]),
                      w.conns),
          conn |-> NilConn, err |-> e.dial]

\* conn.Close(): a method call on a nil connection is a nil dereference, a
\* run-time panic.  Closing a closed connection reports an error.
Close(w, c, e) ==
    IF c = NilConn
    THEN [w |-> w, err |-> "", panicked |-> TRUE]
    ELSE [w |-> World(Append(w.ev, [type |-> "close", conn |-> c]),
                      [w.conns EXCEPT ![c] = [@ EXCEPT !.open = FALSE,
                                                       !.closes = @ + 1]]),
          err |-> IF ~w.conns[c].open THEN "use of closed network connection"
                  ELSE IF e.close = "ok" THEN "" ELSE "close failed",
          panicked |-> FALSE]

----------------------------------------------------------------------------
(* Transport selection *)

\* Mutant: GetTLSConn dials whatever the node advertises.
GetTLSConn_NoTLSCheck(w, n, e) ==
    IF IsOnion(n)
    THEN Ret(w, NilConn, Err("tor support not yet implemented", ""))
    ELSE LET d == Dial(w, "tls", n, n.SSLPort, e) IN
         IF d.err # ""
         THEN Ret(d.w, NilConn, Err("could not establish TLS connection to", d.err))
         ELSE Ret(d.w, d.conn, NoErr)

GetTLSConn(w, n, e) ==
    IF IsOnion(n)
    THEN Ret(w, NilConn, Err("tor support not yet implemented", ""))
    ELSE IF ~SupportsTLS(n)
    THEN Ret(w, NilConn, Err("node does not support SSL/TLS", ""))
    ELSE LET d == Dial(w, "tls", n, n.SSLPort, e) IN
         IF d.err # ""
         THEN Ret(d.w, NilConn, Err("could not establish TLS connection to", d.err))
         ELSE Ret(d.w, d.conn, NoErr)

\* Mutant: GetConn relies on its caller for the overlay check.
GetConn_NoOnionCheck(w, n, e) ==
    LET d == Dial(w, "tcp", n, n.TCPPort, e) IN
    IF d.err # ""
    THEN Ret(d.w, NilConn, Err("could not establish TLS connection to", d.err))
    ELSE Ret(d.w, d.conn, NoErr)

GetConn(w, n, e) ==
    IF IsOnion(n)
    THEN Ret(w, NilConn, Err("tor support not yet implemented", ""))
    ELSE LET d == Dial(w, "tcp", n, n.TCPPort, e) IN
         IF d.err # ""
         THEN Ret(d.w, NilConn, Err("could not establish TLS connection to", d.err))
         ELSE Ret(d.w, d.conn, NoErr)

\* Mutant: Connect closes the connection on the success path too.
ConnectVia_CloseOnSuccess(r, e) ==
    LET c == Close(r.w, r.val, e) IN
    IF c.panicked THEN Panic(c.w)
    ELSE IF r.err # NoErr THEN Ret(c.w, NilConn, r.err)
    ELSE Ret(c.w, r.val, NoErr)

\* On a failed dial the helper returned (nil, err) and Connect calls
\* conn.Close() on that nil connection before it reaches `return nil, err`.
ConnectVia(r, e) ==
    IF r.err # NoErr
    THEN LET c == Close(r.w, r.val, e) IN
         IF c.panicked THEN Panic(c.w) ELSE Ret(c.w, NilConn, r.err)
    ELSE Ret(r.w, r.val, NoErr)

\* Mutant: Connect without its own overlay check.
Connect_NoOnionCheck(w, n, e) ==
    IF SupportsTLS(n)
    THEN ConnectVia(GetTLSConn(w, n, e), e)
    ELSE ConnectVia(GetConn(w, n, e), e)

\* Mutant: a node without a plaintext port is refused without a dial.
Connect_RejectZeroPort(w, n, e) ==
    IF IsOnion(n)
    THEN Ret(w, NilConn, Err("to support not yet implemented", ""))
    ELSE IF SupportsTLS(n)
    THEN ConnectVia(GetTLSConn(w, n, e), e)
    ELSE IF n.TCPPort = 0
    THEN Ret(w, NilConn, Err("node offers no TCP port", ""))
    ELSE ConnectVia(GetConn(w, n, e), e)

Connect(w, n, e) ==
    IF IsOnion(n)
    THEN Ret(w, NilConn, Err("to support not yet implemented", ""))
    ELSE IF SupportsTLS(n)
    THEN ConnectVia(GetTLSConn(w, n, e), e)
    ELSE ConnectVia(GetConn(w, n, e), e)

----------------------------------------------------------------------------
(* Wire format: a byte stream is a sequence of tokens, "doc" a JSON        *)
(* document, "x" bytes that are no JSON document, NL the line terminator.  *)

Tokens == {"doc", "x", NL}

Streams == UNION {[1..k -> Tokens] : k \in 0..MaxStreamLen}

RECURSIVE IndexOf(_, _, _)
IndexOf(s, t, i) ==
    IF i > Len(s) THEN 0 ELSE IF s[i] = t THEN i ELSE IndexOf(s, t, i + 1)

\* bufio.Reader.ReadBytes('\n'): the bytes up to and including the first
\* newline; at end of stream the bytes read so far and io.EOF.
ReadBytes(stream) ==
    LET i == IndexOf(stream, NL, 1) IN
    IF i > 0 THEN [bytes |-> SubSeq(stream, 1, i), err |-> ""]
    ELSE [bytes |-> stream, err |-> "EOF"]

\* fmt.Fprintf(conn, ...) / the write of a request record.
Write(w, c, data, e) ==
    [w |-> World(Append(w.ev, [type |-> "write", conn |-> c, data |-> data,
                               ok |-> e.write = "ok"]),
                 w.conns),
     err |-> IF e.write = "ok" THEN "" ELSE "write failed"]

ReadEvent(w, c, data, err) ==
    World(Append(w.ev, [type |-> "read", conn |-> c, data |-> data, err |-> err]),
          w.conns)

----------------------------------------------------------------------------
(* Requests *)

NewPeerRequest(reqID) ==
    [Method |-> "server.peers.subscribe", Params |-> <<>>, ID |-> reqID]

Requests == {NewPeerRequest(i) : i \in 1..MaxReqID}

\* The JSON encoding of a request: one document.
Marshal(req) == <<"doc">>

RequestBytes == {<<"doc">>, <<>>}

\* JSONRPCRequest.Send, first half: the serialized request and one newline.
SendWrite(w, c, req, e) ==
    LET wr == Write(w, c, Marshal(req) \o <<NL>>, e) IN
    [w |-> wr.w, err |-> IF wr.err = "" THEN NoErr ELSE Err("write", wr.err)]

\* JSONRPCRequest.Send, second half: one response record up to the newline.
\* rd is what the read meets: [stream, timeout].
SendRead(w, c, rd) ==
    IF rd.timeout
    THEN [w |-> ReadEvent(w, c, <<>>, "timeout"), resp |-> NilSlice,
          err |-> Err("read", "timeout")]
    ELSE LET rb == ReadBytes(rd.stream) IN
         IF rb.err # ""
         THEN [w |-> ReadEvent(w, c, rb.bytes, rb.err), resp |-> NilSlice,
               err |-> Err("read", rb.err)]
         ELSE [w |-> ReadEvent(w, c, rb.bytes, ""), resp |-> Slice(rb.bytes),
               err |-> NoErr]

----------------------------------------------------------------------------
(* Request/response exchange *)

\* Mutant: the connection is closed only after a successful exchange.
SendRequestEnd_LeakOnError(w, c, resp, err, e) ==
    IF err # NoErr THEN Ret(w, NilSlice, err)
    ELSE LET cl == Close(w, c, e) IN
         IF cl.panicked THEN Panic(cl.w) ELSE Ret(cl.w, resp, NoErr)

\* SendRequest after req.Send returned (resp, err): close and return.
SendRequestEnd(w, c, resp, err, e) ==
    LET cl == Close(w, c, e) IN
    IF cl.panicked THEN Panic(cl.w)
    ELSE IF err # NoErr THEN Ret(cl.w, NilSlice, err)
    ELSE Ret(cl.w, resp, NoErr)

SendRequest(w, req, n, e) ==
    LET r == Connect(w, n, e) IN
    IF r.panicked THEN Panic(r.w)
    ELSE IF r.err # NoErr
    THEN Ret(r.w, NilSlice, Err("could not connect to", r.err.msg))
    ELSE LET s == SendWrite(r.w, r.val, req, e) IN
         IF s.err # NoErr THEN SendRequestEnd(s.w, r.val, NilSlice, s.err, e)
         ELSE Blocked(s.w, r.val)

SendRequestResume(w, c, rd, e) ==
    LET s == SendRead(w, c, rd) IN SendRequestEnd(s.w, c, s.resp, s.err, e)

\* Mutant: the request goes out without its line terminator.
SendRequestBytes_NoNewline(w, req, n, e) ==
    LET r == Connect(w, n, e) IN
    IF r.panicked THEN Panic(r.w)
    ELSE IF r.err # NoErr THEN Ret(r.w, NilSlice, r.err)
    ELSE LET wr == Write(r.w, r.val, req, e) IN
         IF wr.err # "" THEN Ret(wr.w, NilSlice, Err("write", wr.err))
         ELSE Blocked(wr.w, r.val)

SendRequestBytes(w, req, n, e) ==
    LET r == Connect(w, n, e) IN
    IF r.panicked THEN Panic(r.w)
    ELSE IF r.err # NoErr THEN Ret(r.w, NilSlice, r.err)
    ELSE LET wr == Write(r.w, r.val, req \o <<NL>>, e) IN
         IF wr.err # "" THEN Ret(wr.w, NilSlice, Err("write", wr.err))
         ELSE Blocked(wr.w, r.val)

\* `resp, _ := ...ReadBytes('\n')` drops the read error; the `err` tested
\* after it is still the (nil) error of the write.
SendRequestBytesResume(w, c, stream, e) ==
    LET rb == ReadBytes(stream)
        w1 == ReadEvent(w, c, rb.bytes, rb.err)
        err == NoErr
    IN  IF err # NoErr THEN Ret(w1, NilSlice, err)
        ELSE LET cl == Close(w1, c, e) IN
             IF cl.panicked THEN Panic(cl.w) ELSE Ret(cl.w, Slice(rb.bytes), NoErr)

----------------------------------------------------------------------------
(* Peer discovery *)

Feat(tag, port, numeric) == [tag |-> tag, port |-> port, numeric |-> numeric]

GoodPeer ==
    [address |-> <<"1.2.3.4">>, host |-> <<"a", "example">>,
     features |-> <<Feat("s", 50001, TRUE), Feat("t", 50002, TRUE)>>]

EmptyPeer == [address |-> <<>>, host |-> <<>>, features |-> <<>>]

JunkPeer ==
    [address |-> <<"5.6.7.8">>, host |-> <<>>,
     features |-> <<Feat("s", 0, FALSE)>>]

RawPeers == {GoodPeer, EmptyPeer, JunkPeer}

NoPayload == [id |-> 0, result |-> <<>>]

Payloads ==
    [id : 1..MaxReqID, result : UNION {[1..k -> RawPeers] : k \in 0..MaxPeers}]

\* json.Unmarshal(resp, spr): resp must hold exactly one JSON document
\* (white space around it is skipped); pl is what that document says.
Unmarshal(resp, pl) ==
    IF SelectSeq(resp, LAMBDA t : t # NL) = <<"doc">>
    THEN [spr |-> pl, err |-> NoErr]
    ELSE [spr |-> NoPayload, err |-> Err("json", "syntax error")]

RECURSIVE ParseFeatures(_, _, _)
ParseFeatures(fs, i, acc) ==
    IF i > Len(fs) THEN acc
    ELSE IF ~fs[i].numeric THEN [acc EXCEPT !.ok = FALSE]
    ELSE IF fs[i].tag = "s"
    THEN ParseFeatures(fs, i + 1, [acc EXCEPT !.SSLPort = fs[i].port, !.SSL = TRUE])
    ELSE IF fs[i].tag = "t"
    THEN ParseFeatures(fs, i + 1, [acc EXCEPT !.TCPPort = fs[i].port])
    ELSE ParseFeatures(fs, i + 1, acc)

ParsePeer(raw) ==
    LET f == ParseFeatures(raw.features, 1,
                           [TCPPort |-> 0, SSLPort |-> 0, SSL |-> FALSE, ok |-> TRUE])
    IN  [ok |-> f.ok /\ ~(raw.address = <<>> /\ raw.host = <<>>),
         node |-> [Host |-> IF raw.host # <<>> THEN raw.host ELSE raw.address,
                   TCPPort |-> f.TCPPort, SSLPort |-> f.SSLPort, SSL |-> f.SSL]]

RECURSIVE ParsePeers(_, _)
ParsePeers(raws, i) ==
    IF i > Len(raws) THEN <<>>
    ELSE LET p == ParsePeer(raws[i]) IN
         (IF p.ok THEN <<p.node>> ELSE <<>>) \o ParsePeers(raws, i + 1)

ParseServerPeersSubscriptionResp(spr) ==
    [peers |-> Slice(ParsePeers(spr.result, 1)), err |-> NoErr]

GetPeerInfo(w, n, reqID, e) ==
    IF IsOnion(n)
    THEN Ret(w, NilSlice, Err("tor support not yet implemented", ""))
    ELSE LET r == SendRequest(w, NewPeerRequest(reqID), n, e) IN
         IF r.blocked \/ r.panicked THEN r
         ELSE Ret(r.w, NilSlice, r.err)

\* Mutant: a malformed entry aborts the discovery call.
GetPeerInfoEnd_AbortOnMalformed(r, pl) ==
    IF r.panicked THEN r
    ELSE IF r.err # NoErr THEN Ret(r.w, NilSlice, r.err)
    ELSE LET u == Unmarshal(r.val.elems, pl) IN
         IF u.err # NoErr THEN Ret(r.w, NilSlice, u.err)
         ELSE LET p == ParseServerPeersSubscriptionResp(u.spr) IN
              IF Len(p.peers.elems) < Len(u.spr.result)
              THEN Ret(r.w, NilSlice, Err("parse", "malformed peer entry"))
              ELSE Ret(r.w, p.peers, NoErr)

\* Mutant: the error of json.Unmarshal is not looked at.
GetPeerInfoEnd_IgnoreDecodeError(r, pl) ==
    IF r.panicked THEN r
    ELSE IF r.err # NoErr THEN Ret(r.w, NilSlice, r.err)
    ELSE LET u == Unmarshal(r.val.elems, pl)
             p == ParseServerPeersSubscriptionResp(u.spr)
         IN  IF p.err # NoErr THEN Ret(r.w, NilSlice, p.err)
             ELSE Ret(r.w, p.peers, NoErr)

\* Mutant: a response whose identifier is not the request's is refused.
GetPeerInfoEnd_CheckID(r, pl) ==
    IF r.panicked THEN r
    ELSE IF r.err # NoErr THEN Ret(r.w, NilSlice, r.err)
    ELSE LET u == Unmarshal(r.val.elems, pl) IN
         IF u.err # NoErr THEN Ret(r.w, NilSlice, u.err)
         ELSE IF u.spr.id # op.id
         THEN Ret(r.w, NilSlice, Err("json", "response id mismatch"))
         ELSE LET p == ParseServerPeersSubscriptionResp(u.spr) IN
              IF p.err # NoErr THEN Ret(r.w, NilSlice, p.err)
              ELSE Ret(r.w, p.peers, NoErr)

\* GetPeerInfo after SendRequest returned r = (resp, err).
GetPeerInfoEnd(r, pl) ==
    IF r.panicked THEN r
    ELSE IF r.err # NoErr THEN Ret(r.w, NilSlice, r.err)
    ELSE LET u == Unmarshal(r.val.elems, pl) IN
         IF u.err # NoErr THEN Ret(r.w, NilSlice, u.err)
         ELSE LET p == ParseServerPeersSubscriptionResp(u.spr) IN
              IF p.err # NoErr THEN Ret(r.w, NilSlice, p.err)
              ELSE Ret(r.w, p.peers, NoErr)

GetPeerInfoResume(w, c, rd, pl, e) ==
    GetPeerInfoEnd(SendRequestResume(w, c, rd, e), pl)

----------------------------------------------------------------------------
(* State machine *)

Envs ==
    [dial : {"ok", "refused", "timeout"}, write : {"ok", "fail"},
     close : {"ok", "fail"}, peer : {"responds", "silent"}]

Call(name, n, id, req) == [name |-> name, node |-> n, id |-> id, req |-> req]

W0 == World(<<>>, <<>>)

NoResult ==
    [conn |-> NilConn, resp |-> NilSlice, peers |-> NilSlice, err |-> NoErr,
     panicked |-> FALSE]

\* What the caller gets: the value of its kind and the error, or a panic.
ResultOf(r, kind) ==
    IF r.panicked THEN [NoResult EXCEPT !.panicked = TRUE]
    ELSE [NoResult EXCEPT ![kind] = r.val, !.err = r.err]

----------------------------------------------------------------------------
(* Concurrent callers: goroutines that each run one exchange or discovery  *)
(* call on the same Client.  All they share is the network.                *)

Callers == {"a", "b"}

ExchangeOps == {"SendRequest", "SendRequestBytes", "GetPeerInfo"}

ConcNodes == {n \in Nodes : ~IsOnion(n) /\ n.TCPPort # 0}

ConcEnvs == {e \in Envs : e.dial # "timeout"}

ConcReads ==
    {[stream |-> <<>>, timeout |-> FALSE],
     [stream |-> <<"doc", NL>>, timeout |-> FALSE],
     [stream |-> <<"x", NL>>, timeout |-> FALSE],
     [stream |-> <<>>, timeout |-> TRUE]}

ConcID == 1

ConcPayload == [id |-> ConcID, result |-> <<GoodPeer, JunkPeer>>]

NoNode == [Host |-> PlainHost, TCPPort |-> 0, SSLPort |-> 50002, SSL |-> FALSE]

NoEnv == [dial |-> "ok", write |-> "ok", close |-> "ok", peer |-> "responds"]

IdleCall ==
    [pc |-> "idle", name |-> "none", node |-> NoNode, env |-> NoEnv,
     events |-> <<>>, held |-> NilConn, rd |-> [stream |-> <<>>, timeout |-> FALSE],
     result |-> NoResult]

KindOf(name) == IF name = "GetPeerInfo" THEN "peers" ELSE "resp"

\* The operation up to its return or to the read it blocks in.
Start(name, w, n, e) ==
    CASE name = "SendRequest" -> SendRequest(w, NewPeerRequest(ConcID), n, e)
      [] name = "SendRequestBytes" -> SendRequestBytes(w, <<"doc">>, n, e)
      [] name = "GetPeerInfo" -> GetPeerInfo(w, n, ConcID, e)

\* The operation from the return of its read.
Resume(name, w, c, rd, e) ==
    CASE name = "SendRequest" -> SendRequestResume(w, c, rd, e)
      [] name = "SendRequestBytes" -> SendRequestBytesResume(w, c, rd.stream, e)
      [] name = "GetPeerInfo" -> GetPeerInfoResume(w, c, rd, ConcPayload, e)

\* A panic unwinds the goroutine of the call.  The client recovers from
\* none, so unless the caller does (recovered), the panic ends the process
\* and with it every other goroutine: a call in flight is killed, a caller
\* that has not called yet is halted.
ConcCall(a) ==
    \E name \in ExchangeOps, n \in ConcNodes, e \in ConcEnvs, recovered \in BOOLEAN :
        LET r == Start(name, World(<<>>, net), n, e)
            mine == [IdleCall EXCEPT
                        !.pc = IF r.blocked THEN "reading" ELSE "done",
                        !.name = name, !.node = n, !.env = e,
                        !.events = r.w.ev,
                        !.held = IF r.blocked THEN r.val ELSE NilConn,
                        !.result = IF r.blocked THEN NoResult
                                   ELSE ResultOf(r, KindOf(name))]
        IN
        /\ calls[a].pc = "idle"
        /\ r.panicked \/ recovered
        /\ calls' = [b \in Callers |->
               IF b = a THEN mine
               ELSE IF r.panicked /\ ~recovered /\ calls[b].pc = "reading"
               THEN [calls[b] EXCEPT !.pc = "killed"]
               ELSE IF r.panicked /\ ~recovered /\ calls[b].pc = "idle"
               THEN [calls[b] EXCEPT !.pc = "halted"]
               ELSE calls[b]]
        /\ net' = r.w.conns
        /\ UNCHANGED <<pc, op, env, events, conns, held, payload, result>>

ConcRead(a) ==
    \E rd \in ConcReads :
        LET cl == calls[a]
            r == Resume(cl.name, World(cl.events, net), cl.held, rd, cl.env)
        IN  /\ cl.pc = "reading"
            /\ rd.timeout <=> cl.env.peer = "silent"
            /\ rd.timeout => cl.name # "SendRequestBytes"
            /\ calls' = [calls EXCEPT ![a] =
                   [cl EXCEPT !.pc = "done", !.events = r.w.ev,
                              !.held = NilConn, !.rd = rd,
                              !.result = ResultOf(r, KindOf(cl.name))]]
            /\ net' = r.w.conns
            /\ UNCHANGED <<pc, op, env, events, conns, held, payload, result>>

ConcNext == \E a \in Callers : ConcCall(a) \/ ConcRead(a)

Init ==
    /\ pc = "idle"
    /\ op = Call("none", [Host |-> PlainHost, TCPPort |-> 0, SSLPort |-> 50002,
                          SSL |-> FALSE], 0, <<>>)
    /\ env = [dial |-> "ok", write |-> "ok", close |-> "ok", peer |-> "responds"]
    /\ events = <<>>
    /\ conns = <<>>
    /\ held = NilConn
    /\ payload = NoPayload
    /\ result = NoResult
    /\ calls = [a \in Callers |-> IdleCall]
    /\ net = <<>>

\* The call ran to its return (or panic), or it blocks in the read.  kind
\* is what the operation returns beside the error: "conn", "resp", "peers".
Finish(r, kind) ==
    /\ events' = r.w.ev
    /\ conns' = r.w.conns
    /\ IF r.blocked
       THEN pc' = "reading" /\ held' = r.val /\ result' = NoResult
       ELSE /\ pc' = "done"
            /\ held' = NilConn
            /\ result' = ResultOf(r, kind)
    /\ UNCHANGED <<calls, net>>

CallConnect ==
    \E n \in Nodes, e \in Envs :
        /\ pc = "idle"
        /\ op' = Call("Connect", n, 0, <<>>)
        /\ env' = e
        /\ payload' = NoPayload
        /\ Finish(Connect(W0, n, e), "conn")

CallGetTLSConn ==
    \E n \in Nodes, e \in Envs :
        /\ pc = "idle"
        /\ op' = Call("GetTLSConn", n, 0, <<>>)
        /\ env' = e
        /\ payload' = NoPayload
        /\ Finish(GetTLSConn(W0, n, e), "conn")

CallGetConn ==
    \E n \in Nodes, e \in Envs :
        /\ pc = "idle"
        /\ op' = Call("GetConn", n, 0, <<>>)
        /\ env' = e
        /\ payload' = NoPayload
        /\ Finish(GetConn(W0, n, e), "conn")

CallSendRequest ==
    \E n \in Nodes, e \in Envs, req \in Requests :
        /\ pc = "idle"
        /\ op' = Call("SendRequest", n, req.ID, Marshal(req))
        /\ env' = e
        /\ payload' = NoPayload
        /\ Finish(SendRequest(W0, req, n, e), "resp")

CallSendRequestBytes ==
    \E n \in Nodes, e \in Envs, req \in RequestBytes :
        /\ pc = "idle"
        /\ op' = Call("SendRequestBytes", n, 0, req)
        /\ env' = e
        /\ payload' = NoPayload
        /\ Finish(SendRequestBytes(W0, req, n, e), "resp")

CallGetPeerInfo ==
    \E n \in Nodes, e \in Envs, reqID \in 1..MaxReqID :
        /\ pc = "idle"
        /\ op' = Call("GetPeerInfo", n, reqID, <<>>)
        /\ env' = e
        /\ payload' = NoPayload
        /\ Finish(GetPeerInfo(W0, n, reqID, e), "peers")

\* What a read with a deadline meets: the peer's stream up to its end, or,
\* from a peer that sends nothing, the deadline.
Reads(e) ==
    IF e.peer = "responds" THEN [stream : Streams, timeout : {FALSE}]
    ELSE {[stream |-> <<>>, timeout |-> TRUE]}

\* The read inside req.Send returns and SendRequest runs to its return.
ReadSendRequest ==
    \E rd \in Reads(env) :
        /\ pc = "reading"
        /\ op.name = "SendRequest"
        /\ Finish(SendRequestResume(World(events, conns), held, rd, env), "resp")
        /\ UNCHANGED <<op, env, payload>>

\* ReadBytes sets no deadline: it returns only when the peer sends a
\* newline or ends the stream.
ReadSendRequestBytes ==
    \E stream \in Streams :
        /\ pc = "reading"
        /\ op.name = "SendRequestBytes"
        /\ env.peer = "responds"
        /\ Finish(SendRequestBytesResume(World(events, conns), held, stream, env),
                  "resp")
        /\ UNCHANGED <<op, env, payload>>

ReadGetPeerInfo ==
    \E rd \in Reads(env), pl \in Payloads :
        /\ pc = "reading"
        /\ op.name = "GetPeerInfo"
        /\ payload' = pl
        /\ Finish(GetPeerInfoResume(World(events, conns), held, rd, pl, env),
                  "peers")
        /\ UNCHANGED <<op, env>>

\* The caller has the outcome; the client keeps nothing of the call.
Return ==
    /\ pc = "done"
    /\ pc' = "idle"
    /\ op' = Call("none", [Host |-> PlainHost, TCPPort |-> 0, SSLPort |-> 50002,
                           SSL |-> FALSE], 0, <<>>)
    /\ env' = [dial |-> "ok", write |-> "ok", close |-> "ok", peer |-> "responds"]
    /\ events' = <<>>
    /\ conns' = <<>>
    /\ held' = NilConn
    /\ payload' = NoPayload
    /\ result' = NoResult
    /\ UNCHANGED <<calls, net>>

Next ==
    \/ CallConnect
    \/ CallGetTLSConn
    \/ CallGetConn
    \/ CallSendRequest
    \/ CallSendRequestBytes
    \/ CallGetPeerInfo
    \/ ReadSendRequest
    \/ ReadSendRequestBytes
    \/ ReadGetPeerInfo
    \/ Return

Spec == Init /\ [][Next]_vars

ConcSpec == Init /\ [][ConcNext]_vars

\* A read that can return does return.
FairSpec ==
    Spec /\ WF_vars(ReadSendRequest) /\ WF_vars(ReadSendRequestBytes)
         /\ WF_vars(ReadGetPeerInfo)

----------------------------------------------------------------------------
(* Vocabulary of the properties *)

Done == pc = "done"

Exchange == op.name \in {"SendRequest", "SendRequestBytes"}

Failed(ev) ==
    \/ ev.type = "dial" /\ ev.conn = NilConn
    \/ ev.type = "write" /\ ~ev.ok
    \/ ev.type = "read" /\ ev.err # ""

RequestFailed == \E i \in DOMAIN events : Failed(events[i])

\* The response line the call read, if it read a whole line.
LineRead ==
    \E i \in DOMAIN events : events[i].type = "read" /\ events[i].err = ""

Decodes(data) == SelectSeq(data, LAMBDA t : t # NL) = <<"doc">>

LineDecodes ==
    \E i \in DOMAIN events :
        events[i].type = "read" /\ events[i].err = "" /\ Decodes(events[i].data)

\* The call's own work failed: its dial, write or read, or, in GetPeerInfo,
\* the decoding of the line it read.
PrimaryFailed ==
    \/ RequestFailed
    \/ op.name = "GetPeerInfo" /\ LineRead /\ ~LineDecodes

DialFailed ==
    \E i \in DOMAIN events : events[i].type = "dial" /\ events[i].conn = NilConn

Dials(transport) ==
    {i \in DOMAIN events :
        events[i].type = "dial" /\ events[i].transport = transport}

AllClosedOnce ==
    \A c \in DOMAIN conns : ~conns[c].open /\ conns[c].closes = 1

UnsupportedTransportMsgs ==
    {"to support not yet implemented", "tor support not yet implemented"}

WellFormed(raw) ==
    /\ ~(raw.address = <<>> /\ raw.host = <<>>)
    /\ \A i \in DOMAIN raw.features : raw.features[i].numeric

WellFormedEntries ==
    {i \in DOMAIN payload.result : WellFormed(payload.result[i])}

----------------------------------------------------------------------------
(* Properties *)

\* C1: when SendRequest or SendRequestBytes is over, every connection it got
\* from Connect is closed, and was closed exactly once: after success, after
\* a write failure and after a read failure.
C1_ClosedExactlyOnce == (Done /\ Exchange) => AllClosedOnce

\* C2: on an overlay (onion) node Connect and GetPeerInfo return the
\* unsupported-transport error, having issued no dial, write, read or close.
C2_OverlayNoIO ==
    (op.name \in {"Connect", "GetPeerInfo"} /\ IsOnion(op.node)) =>
        /\ Done
        /\ ~result.panicked
        /\ result.err.msg \in UnsupportedTransportMsgs
        /\ events = <<>>
        /\ conns = <<>>

C2_Witness ==
    /\ Done
    /\ op.name = "Connect"
    /\ IsOnion(op.node)
    /\ result.err.msg \in UnsupportedTransportMsgs

\* C3: on a non-overlay node that supports TLS, Connect dials TLS first; if
\* that dial fails it dials nothing else and returns the TLS connect error.
C3_EncryptedNoFallback ==
    (Done /\ op.name = "Connect" /\ ~IsOnion(op.node) /\ SupportsTLS(op.node)) =>
        /\ Len(events) >= 1
        /\ events[1].type = "dial"
        /\ events[1].transport = "tls"
        /\ events[1].conn = NilConn =>
              /\ Dials("tcp") = {}
              /\ ~result.panicked
              /\ result.conn = NilConn
              /\ result.err = Err("could not establish TLS connection to",
                                  env.dial)

\* C4: when the dial of Connect fails, Connect returns normally, with a nil
\* connection and the connect error.
C4_DialFailureReturned ==
    (Done /\ op.name = "Connect" /\ DialFailed) =>
        /\ ~result.panicked
        /\ result.conn = NilConn
        /\ result.err # NoErr

\* C5: when the response stream ends before a newline (also with no byte
\* received), the exchange returns an error and no response bytes.
C5_ShortReadIsError ==
    (Done /\ Exchange
          /\ \E i \in DOMAIN events :
                 events[i].type = "read" /\ events[i].err = "EOF") =>
        /\ result.err # NoErr
        /\ result.resp = NilSlice

\* C6: a call that waits for the response of a peer that never sends a
\* terminator eventually returns an error, with its connection closed.
C6_SilentPeerUnblocks ==
    (pc = "reading" /\ env.peer = "silent") ~>
        (Done /\ ~result.panicked /\ result.err # NoErr /\ AllClosedOnce)

C8_DecodeErrorDistinct ==
    (Done /\ op.name = "GetPeerInfo" /\ LineRead) =>
        /\ ~LineDecodes => (result.err = Err("json", "syntax error")
                            /\ result.peers = NilSlice)
        /\ (LineDecodes /\ WellFormedEntries = {}) =>
               (result.err = NoErr /\ result.peers.elems = <<>>)

C8_Witness ==
    /\ Done
    /\ op.name = "GetPeerInfo"
    /\ LineRead
    /\ ~LineDecodes
    /\ result.err = Err("json", "syntax error")

\* C9: a call dials at most once and opens at most one connection, and its
\* first failed dial, write or read is the last thing it does but closing:
\* the call returns that failure as an error.
C9_SingleAttempt ==
    Done =>
        /\ Cardinality(Dials("tls") \cup Dials("tcp")) <= 1
        /\ Len(conns) <= 1
        /\ \A i \in DOMAIN events :
              Failed(events[i]) =>
                  /\ \A j \in DOMAIN events : j > i => events[j].type = "close"
                  /\ ~result.panicked
                  /\ result.err # NoErr

\* C10: when the close of the cleanup fails, the call still returns its
\* primary outcome: the request's error if the request failed, the response
\* and no error if it succeeded.
C10_CloseNeverMasks ==
    (Done /\ (result.panicked
              \/ (env.close = "fail"
                  /\ \E i \in DOMAIN events : events[i].type = "close"))) =>
        /\ ~result.panicked
        /\ PrimaryFailed <=> (result.err # NoErr)

EventsOn(c, type) ==
    {i \in DOMAIN events : events[i].type = type /\ events[i].conn = c}

\* The serialized request of the call.
RequestSent ==
    IF op.name = "GetPeerInfo" THEN Marshal(NewPeerRequest(op.id)) ELSE op.req

\* C11: on each connection the call writes at most one record, the request
\* followed by one newline, and reads at most once, after that write; what
\* it reads ends at the first newline.
C11_OneRequestOneResponse ==
    \A c \in DOMAIN conns :
        /\ Cardinality(EventsOn(c, "write")) <= 1
        /\ Cardinality(EventsOn(c, "read")) <= 1
        /\ \A i \in EventsOn(c, "write") : events[i].data = RequestSent \o <<NL>>
        /\ \A j \in EventsOn(c, "read") :
              /\ \E i \in EventsOn(c, "write") : i < j /\ events[i].ok
              /\ \A k \in DOMAIN events[j].data :
                    events[j].data[k] = NL => k = Len(events[j].data)

C11_Witness ==
    /\ Done
    /\ op.name = "SendRequestBytes"
    /\ op.req = <<"doc">>
    /\ \E i, j \in DOMAIN events :
          /\ i < j
          /\ events[i].type = "write"
          /\ events[i].data = <<"doc", NL>>
          /\ events[j].type = "read"
          /\ events[j].data = <<"doc", NL>>
    /\ result.resp = Slice(<<"doc", NL>>)

ConnsUsed(a) ==
    {calls[a].events[i].conn : i \in DOMAIN calls[a].events} \ {NilConn}

ConnsDialed(a) ==
    {calls[a].events[i].conn :
        i \in {j \in DOMAIN calls[a].events : calls[a].events[j].type = "dial"}}
    \ {NilConn}

\* The outcome of the call cl when it runs with nothing beside it.
AloneResult(cl) ==
    LET r == Start(cl.name, W0, cl.node, cl.env) IN
    ResultOf(IF r.blocked THEN Resume(cl.name, r.w, r.val, cl.rd, cl.env) ELSE r,
             KindOf(cl.name))

\* The callers that have called have called on different nodes.
DifferentNodes ==
    \A a, b \in Callers :
        (a # b /\ calls[a].name # "none" /\ calls[b].name # "none") =>
            calls[a].node # calls[b].node

\* C12: concurrent exchange and discovery calls each write, read and close
\* only the connection they dialed themselves, no connection is used by two
\* of them, and each call returns what it returns when it runs alone: no
\* call is cut short by another.
C12_CallsIndependent ==
    DifferentNodes =>
        \A a \in Callers :
            /\ ConnsUsed(a) \subseteq ConnsDialed(a)
            /\ calls[a].held \in ConnsDialed(a) \cup {NilConn}
            /\ \A b \in Callers \ {a} : ConnsUsed(a) \cap ConnsUsed(b) = {}
            /\ calls[a].pc = "done" => calls[a].result = AloneResult(calls[a])
            /\ calls[a].pc # "killed"

\* C13 as claimed: GetPeerInfo does not return successfully on a response
\* whose identifier differs from reqID.
C13_IdChecked ==
    (Done /\ op.name = "GetPeerInfo" /\ LineDecodes /\ payload.id # op.id) =>
        result.err # NoErr

\* C13 as amended: GetPeerInfo does not compare the identifier of the
\* response with reqID: a response line that decodes is accepted whatever
\* its identifier, and the peers returned are those of its entries.
C13_IdNotChecked ==
    (Done /\ op.name = "GetPeerInfo" /\ LineDecodes) =>
        /\ result.err = NoErr
        /\ result.peers = Slice(ParsePeers(payload.result, 1))

C13_Witness ==
    /\ Done
    /\ op.name = "GetPeerInfo"
    /\ LineDecodes
    /\ payload.id # op.id
    /\ result.err = NoErr
    /\ result.peers.elems # <<>>

AllDials == Dials("tls") \cup Dials("tcp")

\* C14: Connect selects one transport in the order overlay, encrypted,
\* plaintext: it dials nothing for an overlay node, TLS at host:SSLPort and
\* nothing else for a node that supports TLS, and otherwise TCP at
\* host:TCPPort and nothing else, also when TCPPort is zero.
C14_TransportPriority ==
    (Done /\ op.name = "Connect") =>
        IF IsOnion(op.node) THEN AllDials = {}
        ELSE /\ AllDials = {1}
             /\ events[1].host = op.node.Host
             /\ events[1].transport = IF SupportsTLS(op.node) THEN "tls" ELSE "tcp"
             /\ events[1].port = IF SupportsTLS(op.node) THEN op.node.SSLPort
                                 ELSE op.node.TCPPort

C14_Witness ==
    /\ Done
    /\ op.name = "Connect"
    /\ ~IsOnion(op.node)
    /\ ~SupportsTLS(op.node)
    /\ op.node.TCPPort = 0
    /\ Len(events) = 1
    /\ events[1].type = "dial"
    /\ events[1].transport = "tcp"
    /\ events[1].port = 0
    /\ result.conn # NilConn

\* C15: no operation dials an overlay host: every dial issued, by whichever
\* operation, goes to a host that is not overlay-classified, and the dial
\* helpers called directly on an overlay node return the unsupported-
\* transport error without a dial.
C15_NoOverlayDial ==
    /\ \A i \in AllDials : ~IsOnion([Host |-> events[i].host])
    /\ IsOnion(op.node) => AllDials = {}
    /\ (Done /\ op.name \in {"GetTLSConn", "GetConn"} /\ IsOnion(op.node)) =>
           (result.err.msg \in UnsupportedTransportMsgs /\ result.conn = NilConn)

C15_Witness ==
    /\ Done
    /\ op.name = "GetConn"
    /\ IsOnion(op.node)
    /\ events = <<>>
    /\ result.err = Err("tor support not yet implemented", "")

\* C16: when GetPeerInfo is over, on whichever path, every connection it
\* opened is closed; the close is the last network operation of the call,
\* so decoding and normalizing work on a closed connection's bytes.
C16_ClosedBeforeDecoding ==
    (Done /\ op.name = "GetPeerInfo") =>
        /\ AllClosedOnce
        /\ conns # <<>> => events[Len(events)].type = "close"

C16_Witness ==
    /\ Done
    /\ op.name = "GetPeerInfo"
    /\ LineRead
    /\ ~LineDecodes
    /\ Len(conns) = 1
    /\ ~conns[1].open
    /\ events[Len(events)].type = "close"

\* A read of the call that met a whole line, with the bytes d.
ReadLine(d) ==
    \E i \in DOMAIN events :
        events[i].type = "read" /\ events[i].err = "" /\ events[i].data = d

\* C17: Connect, SendRequest, SendRequestBytes and GetPeerInfo return either
\* a result or an error: with an error the connection, bytes or peer list
\* returned is nil, and without one it is what the successful step gave:
\* the connection dialed, the line read, the peers parsed from the line.
C17_ResultXorError ==
    (Done /\ ~result.panicked
          /\ op.name \in {"Connect", "SendRequest", "SendRequestBytes", "GetPeerInfo"}) =>
        /\ result.err # NoErr =>
              (result.conn = NilConn /\ result.resp = NilSlice
               /\ result.peers = NilSlice)
        /\ (result.err = NoErr /\ op.name = "Connect") =>
              (result.conn # NilConn /\ AllDials = {1}
               /\ events[1].conn = result.conn)
        /\ (result.err = NoErr /\ Exchange) =>
              (~result.resp.nil /\ ReadLine(result.resp.elems))
        /\ (result.err = NoErr /\ op.name = "GetPeerInfo") =>
              (LineDecodes /\ ~result.peers.nil
               /\ result.peers.elems = ParsePeers(payload.result, 1))

\* C18: the connection a successful Connect returns is open and was never
\* closed by Connect: no close was called during the call, so every close
\* Connect calls is on a path where it returns no connection.
C18_ReturnedConnOpen ==
    (Done /\ op.name = "Connect" /\ ~result.panicked /\ result.err = NoErr) =>
        /\ result.conn \in DOMAIN conns
        /\ conns[result.conn].open
        /\ conns[result.conn].closes = 0
        /\ \A i \in DOMAIN events : events[i].type # "close"

C18_Witness ==
    /\ Done /\ op.name = "Connect" /\ result.err = NoErr
    /\ result.conn = 1 /\ Len(conns) = 1 /\ conns[1].open

\* C19: GetTLSConn on a non-overlay node that does not advertise encrypted
\* transport returns "node does not support SSL/TLS" and no connection
\* without any network event, and every encrypted dial of any call is to a
\* node that advertises encrypted transport.
C19_NoTLSDialWithoutSupport ==
    /\ (Done /\ op.name = "GetTLSConn" /\ ~IsOnion(op.node)
              /\ ~SupportsTLS(op.node)) =>
           /\ result.err = Err("node does not support SSL/TLS", "")
           /\ result.conn = NilConn
           /\ events = <<>> /\ conns = <<>>
    /\ (pc # "idle" /\ Dials("tls") # {}) => SupportsTLS(op.node)

C19_Witness ==
    /\ Done /\ op.name = "GetTLSConn" /\ ~IsOnion(op.node)
    /\ ~SupportsTLS(op.node) /\ result.err # NoErr /\ events = <<>>

====
